---- MODULE Spec2Model ----
(***************************************************************************)
(* TraceCollectionSubprovider (packages/sol-cov): a JSON-RPC subprovider   *)
(* that records execution traces of sent transactions and, by replaying    *)
(* them as throwaway transactions inside a snapshot, of calls and gas      *)
(* estimates.                                                              *)
(*                                                                         *)
(* Processes.  Host requests are 1..MaxRequests.  The synthetic ("fake")   *)
(* transaction of the call/estimate request r is the process Fake(r); it   *)
(* travels through the same engine and so through handleRequest again.     *)
(* A step of a process is the code between two awaited node operations.    *)
(* The node mines a transaction when it is sent (ganache automine, the     *)
(* only node that offers evm_snapshot / evm_revert).                       *)
(***************************************************************************)
EXTENDS Integers, Sequences, FiniteSets, TLC

\* ---- bounds ----
MaxRequests == 2
MaxFaults == 1

\* ---- program constants ----
BLOCK_GAS_LIMIT == 6000000
NEW_CONTRACT == "NEW_CONTRACT"
NULL_ADDRESS == "0x0"

\* ---- values of the JavaScript world ----
UNDEFINED == "undefined"
NULL == "null"
NONE == 0

Hosts == 1..MaxRequests
Fake(r) == MaxRequests + r
Fakes == {Fake(r) : r \in Hosts}
Procs == Hosts \cup Fakes

Methods == {"eth_sendTransaction", "eth_call", "eth_estimateGas", "eth_getBalance"}
Payloaded == {"eth_sendTransaction", "eth_call", "eth_estimateGas"}
ToValues == {UNDEFINED, NULL_ADDRESS, "0xA"}
Data(r) == 100 + r
\* The constructor's defaultFromAddress.
defaultFromAddress == "0xD"
\* params[0] of a request, apart from its data: through the engine the payload
\* is whatever the caller put there.
NoPayload == [to |-> UNDEFINED, from |-> UNDEFINED, gas |-> NONE, value |-> NONE]
Payloads == [to : ToValues \cup {NULL}, from : {UNDEFINED, "0xF"},
             gas : {NONE, 21000}, value : {NONE, 7}]

VARIABLES
    isEnabled,      \* _isEnabled
    config,         \* _config
    traceInfos,     \* _traceInfos
    lockHolder,     \* _lock: the process the permit is handed to, NONE when free
    lockQueue,      \* _lock: the waiting acquirers, first come first
    chain,          \* the node: the mined transactions, one block each
    req,            \* per process: position, payload, hook and its locals
    faults,         \* number of node operations that have failed so far
    stopped         \* the registry at the last stop(): [len, quiet]

vars == <<isEnabled, config, traceInfos, lockHolder, lockQueue, chain, req, faults, stopped>>

\* ---- the node's execution logs ----
\* An entry of structLogs: its call depth and, for a call-like instruction
\* that enters another contract, the address it enters.
Entry(i, d, t) == [idx |-> i, depth |-> d, target |-> t]
PlainLog == <<Entry(1, 0, NONE), Entry(2, 0, NONE)>>
CallingLog == <<Entry(1, 0, "0xB"), Entry(2, 1, NONE), Entry(3, 0, NONE)>>
StructLogs == {PlainLog, CallingLog}
\* A log whose root frame creates a contract: the frame entered is a creation.
CreatingLog == <<Entry(1, 0, NEW_CONTRACT), Entry(2, 1, NONE), Entry(3, 0, NONE)>>

\* ---- getTracesByContractAddress (./trace) ----
\* The mapping is kept as a sequence of [key, subtrace] in insertion order,
\* the order _.keys enumerates it in.
HasKey(map, k) == \E i \in 1..Len(map) : map[i].key = k

Flush(map, k, buf) ==
    IF buf = <<>> THEN map
    ELSE IF HasKey(map, k)
         THEN [i \in 1..Len(map) |->
                 IF map[i].key = k
                 THEN [key |-> k, subtrace |-> map[i].subtrace \o buf]
                 ELSE map[i]]
         ELSE Append(map, [key |-> k, subtrace |-> buf])

RECURSIVE Walk(_, _, _, _, _)
Walk(logs, i, stack, buf, map) ==
    IF i > Len(logs) THEN
        IF stack = <<>> THEN map ELSE Flush(map, stack[Len(stack)], buf)
    ELSE
        LET e == logs[i]
            cur == stack[Len(stack)]
            buf2 == Append(buf, e)
        IN  IF i < Len(logs) /\ logs[i + 1].depth > e.depth
            THEN Walk(logs, i + 1, Append(stack, e.target), <<>>, Flush(map, cur, buf2))
            ELSE IF i < Len(logs) /\ logs[i + 1].depth < e.depth
            THEN Walk(logs, i + 1, SubSeq(stack, 1, Len(stack) - 1), <<>>,
                      Flush(map, cur, buf2))
            ELSE Walk(logs, i + 1, stack, buf2, map)

getTracesByContractAddress(structLogs, startAddress) ==
    Walk(structLogs, 1, <<startAddress>>, <<>>, <<>>)

\* ---- the node ----
\* web3Wrapper.getContractCodeAsync: the code deployed at an address.
getContractCode(address) == <<"code", address>>

InChain(h) == \E i \in 1..Len(chain) : chain[i].hash = h
TxOf(h) == chain[CHOOSE i \in 1..Len(chain) : chain[i].hash = h]
\* getBlockWithTransactionDataAsync(latest).transactions
LatestTransactions == IF chain = <<>> THEN <<>> ELSE <<chain[Len(chain)]>>

\* BlockchainLifecycle (dev-utils): startAsync takes a snapshot of the whole
\* chain state, revertAsync puts the chain back to it.
startAsync(state) == state
revertAsync(snapshot) == snapshot

\* ---- per-process record ----
NoRec == [address |-> UNDEFINED, data |-> NONE, txHash |-> NONE, todo |-> <<>>]
NewReq == [pc |-> "new", failedAt |-> "", method |-> "", to |-> UNDEFINED, data |-> NONE,
           from |-> UNDEFINED, gas |-> NONE, value |-> NONE,
           txHash |-> NONE, isFakeTransaction |-> FALSE, hook |-> "none", nextCalls |-> 0,
           wrapLen |-> 0, err |-> FALSE, cbs |-> <<>>, snap |-> <<>>,
           reverted |-> FALSE, tryFailed |-> FALSE, scan |-> <<>>, rec |-> NoRec,
           ticket |-> 0, turn |-> 0, firstRec |-> 0, lastRec |-> 0]

Configs == [shouldCollectTransactionTraces : BOOLEAN,
            shouldCollectCallTraces : BOOLEAN,
            shouldCollectGasEstimateTraces : BOOLEAN]

Init ==
    /\ isEnabled = TRUE
    /\ config \in Configs
    /\ traceInfos = <<>>
    /\ lockHolder = NONE
    /\ lockQueue = <<>>
    /\ chain = <<>>
    /\ req = [p \in Procs |-> NewReq]
    /\ faults = 0
    /\ stopped = [len |-> 0, quiet |-> TRUE]

\* ---- start / stop ----
\* Hooks of transactions that are attached and have not finished.
TxHookPending == \E p \in Procs :
    req[p].hook = "tx" /\ req[p].pc \notin {"new", "submitted", "done", "aborted"}

\* Mutant of start: collection starts over with an empty registry.
start_ResetsRegistry ==
    /\ isEnabled' = TRUE
    /\ traceInfos' = <<>>
    /\ stopped' = [len |-> 0, quiet |-> TRUE]
    /\ UNCHANGED <<config, lockHolder, lockQueue, chain, req, faults>>

start ==
    /\ isEnabled' = TRUE
    /\ stopped' = [len |-> 0, quiet |-> TRUE]
    /\ UNCHANGED <<config, traceInfos, lockHolder, lockQueue, chain, req, faults>>

stop ==
    /\ isEnabled' = FALSE
    /\ stopped' = IF isEnabled
                  THEN [len |-> Len(traceInfos), quiet |-> ~TxHookPending]
                  ELSE stopped
    /\ UNCHANGED <<config, traceInfos, lockHolder, lockQueue, chain, req, faults>>

\* getCollectedTraceInfos returns the registry and changes nothing.
getCollectedTraceInfos == UNCHANGED vars

\* setEngine binds the client wrapper to the engine, which the model has
\* bound from the start; it touches nothing else.
setEngine == UNCHANGED vars

\* Mutants of HookFor: the enabled flag is not read; eth_call reads the
\* gas-estimate toggle.
HookFor_IgnoresEnabled(method) ==
    CASE method = "eth_sendTransaction" ->
            IF ~config.shouldCollectTransactionTraces THEN "none" ELSE "tx"
      [] method = "eth_call" ->
            IF ~config.shouldCollectCallTraces THEN "none" ELSE "call"
      [] method = "eth_estimateGas" ->
            IF ~config.shouldCollectGasEstimateTraces THEN "none" ELSE "call"
      [] OTHER -> "none"

HookFor_WrongToggle(method) ==
    IF isEnabled THEN
        CASE method = "eth_sendTransaction" ->
                IF ~config.shouldCollectTransactionTraces THEN "none" ELSE "tx"
          [] method = "eth_call" ->
                IF ~config.shouldCollectGasEstimateTraces THEN "none" ELSE "call"
          [] method = "eth_estimateGas" ->
                IF ~config.shouldCollectGasEstimateTraces THEN "none" ELSE "call"
          [] OTHER -> "none"
    ELSE "none"

\* ---- handleRequest ----
\* The hook handed to next(): "none" for a bare next().
HookFor(method) ==
    IF isEnabled THEN
        CASE method = "eth_sendTransaction" ->
                IF ~config.shouldCollectTransactionTraces THEN "none" ELSE "tx"
          [] method = "eth_call" ->
                IF ~config.shouldCollectCallTraces THEN "none" ELSE "call"
          [] method = "eth_estimateGas" ->
                IF ~config.shouldCollectGasEstimateTraces THEN "none" ELSE "call"
          [] OTHER -> "none"
    ELSE "none"

\* handleRequest has no await: classifying the request and calling next()
\* is one step.  rq is the request with its payload filled in.
handleRequest(rq) ==
    [rq EXCEPT !.pc = "atNode",
               !.hook = HookFor(rq.method),
               !.nextCalls = @ + 1,
               !.wrapLen = Len(traceInfos)]

\* The host sends its next request through the engine.
HostSend(r, m, params) ==
    /\ req[r].pc = "new"
    /\ \A q \in Hosts : q < r => req[q].pc # "new"
    /\ m \notin Payloaded => params = NoPayload
    /\ req' = [req EXCEPT ![r] =
                 handleRequest([@ EXCEPT !.method = m, !.to = params.to,
                                         !.from = params.from, !.gas = params.gas,
                                         !.value = params.value, !.data = Data(r)])]
    /\ UNCHANGED <<isEnabled, config, traceInfos, lockHolder, lockQueue, chain, faults, stopped>>

\* A request whose payload names at most a recipient.
HostRequest(r, m, t) == HostSend(r, m, [NoPayload EXCEPT !.to = t])

\* ---- the node executes a forwarded request ----
\* The first step of the hook, if any, once the response is back.
Returned(rq) ==
    [rq EXCEPT !.pc = CASE rq.hook = "tx" -> "txAcquire"
                        [] rq.hook = "call" -> "callAcquire"
                        [] OTHER -> "done"]

\* eth_sendTransaction succeeds: the transaction is mined at once.
NodeSendOk(p, log) ==
    /\ req[p].pc = "atNode"
    /\ req[p].method = "eth_sendTransaction"
    /\ chain' = Append(chain, [hash |-> p, input |-> req[p].data, structLogs |-> log])
    /\ req' = [req EXCEPT ![p] = Returned([@ EXCEPT !.txHash = p])]
    /\ UNCHANGED <<isEnabled, config, traceInfos, lockHolder, lockQueue, faults, stopped>>

\* eth_sendTransaction reports an error: the transaction was rejected, or it
\* was mined and its execution failed.
NodeSendFail(p, log, mined) ==
    /\ req[p].pc = "atNode"
    /\ req[p].method = "eth_sendTransaction"
    /\ faults < MaxFaults
    /\ faults' = faults + 1
    /\ chain' = IF mined
                THEN Append(chain, [hash |-> p, input |-> req[p].data, structLogs |-> log])
                ELSE chain
    /\ req' = [req EXCEPT ![p] = Returned([@ EXCEPT !.err = TRUE])]
    /\ UNCHANGED <<isEnabled, config, traceInfos, lockHolder, lockQueue, stopped>>

\* Any other method changes nothing on the chain.
NodeOther(p) ==
    /\ req[p].pc = "atNode"
    /\ req[p].method # "eth_sendTransaction"
    /\ req' = [req EXCEPT ![p] = Returned(@)]
    /\ UNCHANGED <<isEnabled, config, traceInfos, lockHolder, lockQueue, chain, faults, stopped>>

\* ---- _recordTxTraceAsync: entry ----
\* The call runs up to its first await, awaitTransactionMinedAsync.
_recordTxTraceAsync(rq, address, data, txHash) ==
    [rq EXCEPT !.pc = "recMined",
               !.rec = [address |-> address, data |-> data, txHash |-> txHash,
                        todo |-> <<>>]]

\* ---- _onTransactionSentAsync ----
ToAddress(rq) ==
    IF rq.to = UNDEFINED \/ rq.to = NULL_ADDRESS THEN NEW_CONTRACT ELSE rq.to

\* After the lock (lines 135-141): up to the first await of either branch.
TxAfterLock(rq) ==
    IF ~rq.err
    THEN _recordTxTraceAsync(rq, ToAddress(rq), rq.data, rq.txHash)
    ELSE [rq EXCEPT !.pc = "txGetBlock"]

\* ---- _recordCallOrGasEstimateTraceAsync: after the lock ----
CallAfterLock(rq) == [rq EXCEPT !.pc = "callSnapshot"]

\* History of the lock: ticket numbers the calls of acquire(), turn the
\* grants of the permit.
NextTicket == 1 + Cardinality({q \in Procs : req[q].ticket > 0})
NextTurn == 1 + Cardinality({q \in Procs : req[q].turn > 0})

\* The code that runs when acquire() resolves.
AfterLock(rq) ==
    LET granted == [rq EXCEPT !.turn = NextTurn]
    IN  IF rq.hook = "tx" THEN TxAfterLock(granted) ELSE CallAfterLock(granted)

\* Mutant of Acquire: the permit is granted although it is taken.
Acquire_NoWait(p) ==
    /\ lockHolder' = p
    /\ lockQueue' = lockQueue
    /\ req' = [req EXCEPT ![p] = AfterLock([@ EXCEPT !.ticket = NextTicket])]

\* ---- _lock (semaphore-async-await Lock) ----
\* acquire(): take the permit, or queue behind the earlier waiters.
\* Mutant of Acquire: the lock refuses a caller only when a queue has formed.
Acquire_TwoPermits(p) ==
    IF lockQueue = <<>>
    THEN /\ lockHolder' = p
         /\ lockQueue' = lockQueue
         /\ req' = [req EXCEPT ![p] = AfterLock([@ EXCEPT !.ticket = NextTicket])]
    ELSE /\ lockHolder' = lockHolder
         /\ lockQueue' = Append(lockQueue, p)
         /\ req' = [req EXCEPT ![p] = [@ EXCEPT !.pc = "waitLock",
                                                 !.ticket = NextTicket]]

Acquire(p) ==
    IF lockHolder = NONE
    THEN /\ lockHolder' = p
         /\ lockQueue' = lockQueue
         /\ req' = [req EXCEPT ![p] = AfterLock([@ EXCEPT !.ticket = NextTicket])]
    ELSE /\ lockHolder' = lockHolder
         /\ lockQueue' = Append(lockQueue, p)
         /\ req' = [req EXCEPT ![p] = [@ EXCEPT !.pc = "waitLock",
                                                 !.ticket = NextTicket]]

\* release(): hand the permit to the first waiter, which resumes; rq is the
\* releasing process after its own step.
Release(p, rq) ==
    IF lockQueue = <<>>
    THEN /\ lockHolder' = NONE
         /\ lockQueue' = lockQueue
         /\ req' = [req EXCEPT ![p] = rq]
    ELSE /\ lockHolder' = Head(lockQueue)
         /\ lockQueue' = Tail(lockQueue)
         /\ req' = [req EXCEPT ![p] = rq,
                               ![Head(lockQueue)] = AfterLock(@)]

\* ---- _onTransactionSentAsync: lines 149-154 ----
\* release() unless the transaction is a fake one, then cb().
TxEnd(p, rq) ==
    LET done == [rq EXCEPT !.pc = "done", !.cbs = Append(@, UNDEFINED),
                           !.rec = NoRec, !.scan = <<>>]
    IN  IF ~rq.isFakeTransaction
        THEN Release(p, done)
        ELSE /\ req' = [req EXCEPT ![p] = done]
             /\ UNCHANGED <<lockHolder, lockQueue>>

\* ---- _recordTxTraceAsync: the loop over subcallAddresses ----
\* Mutant of TraceInfoNewContract: the hash is stored as the bytecode.
TraceInfoNewContract_WrongArgument(rec, entry) ==
    [subtrace |-> entry.subtrace, txHash |-> rec.txHash, address |-> entry.key,
     bytecode |-> rec.txHash]

TraceInfoNewContract(rec, entry) ==
    [subtrace |-> entry.subtrace, txHash |-> rec.txHash, address |-> entry.key,
     bytecode |-> rec.data]

TraceInfoExistingContract(rec, entry) ==
    [subtrace |-> entry.subtrace, txHash |-> rec.txHash, address |-> entry.key,
     runtimeBytecode |-> getContractCode(entry.key)]

\* TRUE when the iteration for this key awaits getContractCodeAsync.
FetchesCode(rec, key) == ~(rec.address = NEW_CONTRACT /\ key = "NEW_CONTRACT")

\* The code that runs without an await from the head of rec.todo on: pushes
\* for the new-contract key, the return of _recordTxTraceAsync and, on the
\* failure path, the next transaction of the latest block.  It stops at the
\* next await (pc recCode or recMined) or at the end of the hook (pc txEnd).
RECURSIVE Advance(_, _)
Advance(rq, infos) ==
    IF rq.rec.todo # <<>> THEN
        IF FetchesCode(rq.rec, Head(rq.rec.todo).key)
        THEN [rq |-> [rq EXCEPT !.pc = "recCode"], infos |-> infos]
        ELSE Advance([rq EXCEPT !.rec.todo = Tail(@)],
                     Append(infos, TraceInfoNewContract(rq.rec, Head(rq.rec.todo))))
    ELSE IF Len(rq.scan) > 1 THEN
        LET transaction == rq.scan[2]
        IN  [rq |-> _recordTxTraceAsync([rq EXCEPT !.scan = Tail(@)], ToAddress(rq),
                                        transaction.input, transaction.hash),
             infos |-> infos]
    ELSE [rq |-> [rq EXCEPT !.pc = "txEnd", !.scan = <<>>], infos |-> infos]

\* History of the registry: the places of the first and of the last record
\* the hook has pushed.
Pushed(rq, infos) ==
    IF Len(infos) > Len(traceInfos)
    THEN [rq EXCEPT !.firstRec = IF @ = 0 THEN Len(traceInfos) + 1 ELSE @,
                    !.lastRec = Len(infos)]
    ELSE rq

\* One step of the hook of p that ends in state a.rq with registry a.infos.
Resume(p, a) ==
    /\ traceInfos' = a.infos
    /\ IF a.rq.pc = "txEnd"
       THEN TxEnd(p, Pushed(a.rq, a.infos))
       ELSE /\ req' = [req EXCEPT ![p] = Pushed(a.rq, a.infos)]
            /\ UNCHANGED <<lockHolder, lockQueue>>

\* ---- _onTransactionSentAsync: steps ----
TxAcquire(p) ==
    /\ req[p].pc = "txAcquire"
    /\ IF ~req[p].isFakeTransaction
       THEN Acquire(p)
       ELSE /\ req' = [req EXCEPT ![p] = TxAfterLock(@)]
            /\ UNCHANGED <<lockHolder, lockQueue>>
    /\ UNCHANGED <<isEnabled, config, traceInfos, chain, faults, stopped>>

\* Mutant of TxGetBlock: the scan records the failed payload itself.
TxGetBlock_OwnPayload(p) ==
    /\ req[p].pc = "txGetBlock"
    /\ LET rq == req[p]
       IN  Resume(p, [rq |-> _recordTxTraceAsync([rq EXCEPT !.scan = LatestTransactions],
                                 ToAddress(rq), rq.data, rq.txHash),
                      infos |-> traceInfos])
    /\ UNCHANGED <<isEnabled, config, chain, faults, stopped>>

\* getBlockWithTransactionDataAsync(latest) returns.
TxGetBlock(p) ==
    /\ req[p].pc = "txGetBlock"
    /\ LET transactions == LatestTransactions
           rq == req[p]
       IN  IF transactions = <<>>
           THEN Resume(p, [rq |-> [rq EXCEPT !.pc = "txEnd"], infos |-> traceInfos])
           ELSE Resume(p, [rq |-> _recordTxTraceAsync([rq EXCEPT !.scan = transactions],
                                      ToAddress(rq), transactions[1].input,
                                      transactions[1].hash),
                           infos |-> traceInfos])
    /\ UNCHANGED <<isEnabled, config, chain, faults, stopped>>

\* awaitTransactionMinedAsync returns once the transaction has a receipt.
RecMined(p) ==
    /\ req[p].pc = "recMined"
    /\ InChain(req[p].rec.txHash)
    /\ req' = [req EXCEPT ![p] = [@ EXCEPT !.pc = "recTrace"]]
    /\ UNCHANGED <<isEnabled, config, traceInfos, lockHolder, lockQueue, chain, faults, stopped>>

\* getTransactionTraceAsync returns; the extraction and the loop start.
RecTrace(p) ==
    /\ req[p].pc = "recTrace"
    /\ InChain(req[p].rec.txHash)
    /\ LET trace == TxOf(req[p].rec.txHash)
           tracesByContractAddress ==
               getTracesByContractAddress(trace.structLogs, req[p].rec.address)
       IN  Resume(p, Advance([req[p] EXCEPT !.rec.todo = tracesByContractAddress],
                             traceInfos))
    /\ UNCHANGED <<isEnabled, config, chain, faults, stopped>>

\* getContractCodeAsync returns; the record is pushed and the loop goes on.
RecCode(p) ==
    /\ req[p].pc = "recCode"
    /\ LET rq == req[p]
           entry == Head(rq.rec.todo)
       IN  Resume(p, Advance([rq EXCEPT !.rec.todo = Tail(@)],
                             Append(traceInfos, TraceInfoExistingContract(rq.rec, entry))))
    /\ UNCHANGED <<isEnabled, config, chain, faults, stopped>>

\* ---- _recordCallOrGasEstimateTraceAsync / _onCallOrGasEstimateExecutedAsync ----
CallAcquire(r) ==
    /\ req[r].pc = "callAcquire"
    /\ Acquire(r)
    /\ UNCHANGED <<isEnabled, config, traceInfos, chain, faults, stopped>>

\* Lines 217-222: the spread of callData comes after gas and before from.
fakeTxData(callData) ==
    [NewReq EXCEPT !.method = "eth_sendTransaction",
                   !.gas = IF callData.gas # NONE THEN callData.gas
                           ELSE BLOCK_GAS_LIMIT,
                   !.isFakeTransaction = TRUE,
                   !.to = callData.to,
                   !.data = callData.data,
                   !.value = callData.value,
                   !.from = IF callData.from # UNDEFINED THEN callData.from
                            ELSE defaultFromAddress]

\* blockchainLifecycle.startAsync returns: the snapshot is taken; the fake
\* transaction is built and sent through the engine, so through handleRequest.
CallSnapshot(r) ==
    /\ req[r].pc = "callSnapshot"
    /\ req' = [req EXCEPT ![r] = [@ EXCEPT !.pc = "callSend", !.snap = startAsync(chain)],
                          ![Fake(r)] = handleRequest(fakeTxData(req[r]))]
    /\ UNCHANGED <<isEnabled, config, traceInfos, lockHolder, lockQueue, chain, faults, stopped>>

\* Mutant of CallSendReturned: release() comes before the revert.
CallSendReturned_ReleasesFirst(r) ==
    /\ req[r].pc = "callSend"
    /\ req[Fake(r)].pc = "done"
    /\ Release(r, IF ~req[Fake(r)].err
                  THEN [req[r] EXCEPT !.pc = "callMined"]
                  ELSE [req[r] EXCEPT !.pc = "callRevert", !.tryFailed = TRUE])
    /\ UNCHANGED <<isEnabled, config, traceInfos, chain, faults, stopped>>

\* sendTransactionAsync returns, with the hash or with the node's error,
\* which the catch swallows (tryFailed records that the try block failed).
CallSendReturned(r) ==
    /\ req[r].pc = "callSend"
    /\ req[Fake(r)].pc = "done"
    /\ req' = [req EXCEPT ![r] = IF ~req[Fake(r)].err
                                  THEN [@ EXCEPT !.pc = "callMined"]
                                  ELSE [@ EXCEPT !.pc = "callRevert", !.tryFailed = TRUE]]
    /\ UNCHANGED <<isEnabled, config, traceInfos, lockHolder, lockQueue, chain, faults, stopped>>

CallMined(r) ==
    /\ req[r].pc = "callMined"
    /\ InChain(Fake(r))
    /\ req' = [req EXCEPT ![r] = [@ EXCEPT !.pc = "callRevert"]]
    /\ UNCHANGED <<isEnabled, config, traceInfos, lockHolder, lockQueue, chain, faults, stopped>>

\* Mutant of CallMinedFail: the mine-wait is outside the try.
CallMinedFail_Uncaught(r) ==
    /\ req[r].pc = "callMined"
    /\ faults < MaxFaults
    /\ faults' = faults + 1
    /\ req' = [req EXCEPT ![r] = [@ EXCEPT !.pc = "aborted", !.failedAt = "callMined",
                                            !.tryFailed = TRUE]]
    /\ UNCHANGED <<isEnabled, config, traceInfos, lockHolder, lockQueue, chain, stopped>>

\* awaitTransactionMinedAsync of line 225 fails: caught.
CallMinedFail(r) ==
    /\ req[r].pc = "callMined"
    /\ faults < MaxFaults
    /\ faults' = faults + 1
    /\ req' = [req EXCEPT ![r] = [@ EXCEPT !.pc = "callRevert", !.tryFailed = TRUE]]
    /\ UNCHANGED <<isEnabled, config, traceInfos, lockHolder, lockQueue, chain, stopped>>

\* Mutant of CallRevert: the gate is released without the revert.
CallRevert_SkipsRevert(r) ==
    /\ req[r].pc = "callRevert"
    /\ chain' = chain
    /\ Release(r, [req[r] EXCEPT !.pc = "callCb", !.reverted = TRUE])
    /\ UNCHANGED <<isEnabled, config, traceInfos, faults, stopped>>

\* blockchainLifecycle.revertAsync returns: the chain is back at the
\* snapshot; release() follows without an await.
CallRevert(r) ==
    /\ req[r].pc = "callRevert"
    /\ chain' = revertAsync(req[r].snap)
    /\ Release(r, [req[r] EXCEPT !.pc = "callCb", !.reverted = TRUE])
    /\ UNCHANGED <<isEnabled, config, traceInfos, faults, stopped>>

\* _onCallOrGasEstimateExecutedAsync resumes: cb().
CallCb(r) ==
    /\ req[r].pc = "callCb"
    /\ req' = [req EXCEPT ![r] = [@ EXCEPT !.pc = "done", !.cbs = Append(@, UNDEFINED)]]
    /\ UNCHANGED <<isEnabled, config, traceInfos, lockHolder, lockQueue, chain, faults, stopped>>

\* ---- a node operation fails outside any try ----
\* The awaited node operation of each position that no catch covers.
Uncaught == {"txGetBlock", "recMined", "recTrace", "recCode", "callSnapshot", "callRevert"}

\* The rejection leaves the async function: nothing after the await runs.
NodeOpFails(p) ==
    /\ req[p].pc \in Uncaught
    /\ req[p].pc = "recCode" => FetchesCode(req[p].rec, Head(req[p].rec.todo).key)
    /\ faults < MaxFaults
    /\ faults' = faults + 1
    /\ req' = [req EXCEPT ![p] = [@ EXCEPT !.pc = "aborted", !.failedAt = req[p].pc]]
    /\ UNCHANGED <<isEnabled, config, traceInfos, lockHolder, lockQueue, chain, stopped>>

Next ==
    \/ start
    \/ stop
    \/ getCollectedTraceInfos
    \/ setEngine
    \/ \E r \in Hosts, m \in Methods, t \in ToValues : HostRequest(r, m, t)
    \/ \E p \in Procs, log \in StructLogs : NodeSendOk(p, log)
    \/ \E p \in Procs, log \in StructLogs, mined \in BOOLEAN : NodeSendFail(p, log, mined)
    \/ \E p \in Procs : NodeOther(p)
    \/ \E p \in Procs : TxAcquire(p)
    \/ \E p \in Procs : TxGetBlock(p)
    \/ \E p \in Procs : RecMined(p)
    \/ \E p \in Procs : RecTrace(p)
    \/ \E p \in Procs : RecCode(p)
    \/ \E p \in Procs : NodeOpFails(p)
    \/ \E r \in Hosts : CallAcquire(r)
    \/ \E r \in Hosts : CallSnapshot(r)
    \/ \E r \in Hosts : CallSendReturned(r)
    \/ \E r \in Hosts : CallMined(r)
    \/ \E r \in Hosts : CallMinedFail(r)
    \/ \E r \in Hosts : CallRevert(r)
    \/ \E r \in Hosts : CallCb(r)

Spec == Init /\ [][Next]_vars

\* The component serving one request whose payload is drawn from Payloads.
PayloadNext ==
    \/ start
    \/ stop
    \/ getCollectedTraceInfos
    \/ setEngine
    \/ \E m \in Methods, params \in Payloads \cup {NoPayload} : HostSend(1, m, params)
    \/ \E p \in Procs, log \in StructLogs \cup {CreatingLog} : NodeSendOk(p, log)
    \/ \E p \in Procs, log \in StructLogs \cup {CreatingLog}, mined \in BOOLEAN : NodeSendFail(p, log, mined)
    \/ \E p \in Procs : NodeOther(p)
    \/ \E p \in Procs : TxAcquire(p)
    \/ \E p \in Procs : TxGetBlock(p)
    \/ \E p \in Procs : RecMined(p)
    \/ \E p \in Procs : RecTrace(p)
    \/ \E p \in Procs : RecCode(p)
    \/ \E p \in Procs : NodeOpFails(p)
    \/ \E r \in Hosts : CallAcquire(r)
    \/ \E r \in Hosts : CallSnapshot(r)
    \/ \E r \in Hosts : CallSendReturned(r)
    \/ \E r \in Hosts : CallMined(r)
    \/ \E r \in Hosts : CallMinedFail(r)
    \/ \E r \in Hosts : CallRevert(r)
    \/ \E r \in Hosts : CallCb(r)

PayloadSpec == Init /\ [][PayloadNext]_vars

\* ======================= properties =======================

Sent(p) == req[p].pc \notin {"new", "atNode"}
Finished(p) == req[p].pc \in {"done", "aborted"}
IsNewContractInfo(ti) == DOMAIN ti = {"subtrace", "txHash", "address", "bytecode"}
IsExistingContractInfo(ti) == DOMAIN ti = {"subtrace", "txHash", "address", "runtimeBytecode"}

\* C1: a genuine transaction that was sent successfully is never undone by
\* the revert of a call cycle: once mined it stays on the chain.
C1_GenuineTxNeverReverted ==
    \A g \in Hosts :
        (req[g].method = "eth_sendTransaction" /\ req[g].hook = "tx"
            /\ Sent(g) /\ ~req[g].err)
        => InChain(g)

\* C2: a capture procedure that has left through an error path does not
\* keep the lock.
C2_LockReleasedOnError ==
    \A p \in Hosts : req[p].pc = "aborted" => lockHolder # p

\* C3: the completion continuation of a wrapped request is invoked exactly
\* once when its capture has ended, however it ended, and never twice.
C3_CompletionExactlyOnce ==
    \A p \in Procs :
        /\ Len(req[p].cbs) <= 1
        /\ (req[p].hook # "none" /\ Finished(p)) => Len(req[p].cbs) = 1

\* C4: when the completion of a captured call or gas estimate is invoked and
\* no node operation has failed, the registry is longer than it was when the
\* request was wrapped, whatever the other toggles are.
C4_CallCaptureAddsTraceInfo ==
    \A r \in Hosts :
        (req[r].hook = "call" /\ req[r].pc = "done" /\ faults = 0)
        => Len(traceInfos) > req[r].wrapLen

\* C5: at the step in which a call cycle releases the gate the chain is the
\* chain of the cycle's snapshot, and the synthetic transaction is not on it.
C5_SnapshotRevertRoundTrip ==
    [][\A r \in Hosts :
          (req[r].pc = "callRevert" /\ req'[r].pc = "callCb")
          => /\ chain' = req[r].snap
             /\ \A i \in 1..Len(chain') : chain'[i].hash # Fake(r)]_vars

\* A cycle whose synthetic transaction was mined has reverted and released.
C5_Witness ==
    \E r \in Hosts :
        /\ req[r].pc = "callCb"
        /\ req[r].reverted
        /\ req[Fake(r)].txHash = Fake(r)
        /\ lockHolder # r

\* C6: handleRequest calls next() exactly once per request, and attaches a
\* hook exactly when the component is enabled and the method's own toggle is
\* on: the transaction hook for eth_sendTransaction, the call hook for
\* eth_call and eth_estimateGas.
C6_Classification ==
    [][\A p \in Procs :
          IF req[p].pc = "new" /\ req'[p].pc # "new"
          THEN LET m == req'[p].method
                   wanted ==
                       /\ isEnabled
                       /\ \/ m = "eth_sendTransaction" /\ config.shouldCollectTransactionTraces
                          \/ m = "eth_call" /\ config.shouldCollectCallTraces
                          \/ m = "eth_estimateGas" /\ config.shouldCollectGasEstimateTraces
               IN  /\ req'[p].pc = "atNode"
                   /\ req'[p].nextCalls = 1
                   /\ (req'[p].hook # "none") <=> wanted
                   /\ req'[p].hook = "tx" => m = "eth_sendTransaction"
                   /\ req'[p].hook = "call" => m \in {"eth_call", "eth_estimateGas"}
          ELSE /\ req'[p].nextCalls = req[p].nextCalls
               /\ req'[p].hook = req[p].hook]_vars

\* A gas estimate is wrapped, and a transaction goes unwrapped although its
\* toggle is on (it came while the component was disabled).
C6_Witness ==
    /\ \E p \in Hosts : req[p].method = "eth_estimateGas" /\ req[p].hook = "call"
    /\ \E q \in Hosts :
          /\ req[q].method = "eth_sendTransaction"
          /\ config.shouldCollectTransactionTraces
          /\ Sent(q) /\ req[q].hook = "none"

\* C7: once the submission or the mine-wait in the try of a call cycle has
\* failed, the cycle goes on to the revert; it can only stop there
\* if the revert itself fails; past the revert the snapshot is reverted and
\* the gate released, and the completion is invoked once with no error.
C7_SubmissionFailureSwallowed ==
    \A r \in Hosts :
        req[r].tryFailed =>
            /\ req[r].pc \in {"callRevert", "callCb", "done", "aborted"}
            /\ req[r].pc = "aborted" => req[r].failedAt = "callRevert"
            /\ req[r].pc \in {"callCb", "done"} =>
                  /\ req[r].reverted
                  /\ lockHolder # r
                  /\ ~InChain(Fake(r))
            /\ req[r].pc = "done" => req[r].cbs = <<UNDEFINED>>

\* A cycle whose synthetic transaction failed has completed.
C7_Witness ==
    \E r \in Hosts :
        /\ req[r].tryFailed
        /\ req[r].pc = "done"
        /\ req[Fake(r)].err

\* The process whose _recordTxTraceAsync takes this step.
Recording(p) == req[p].pc \in {"recTrace", "recCode"} /\ req'[p] # req[p]

\* C8: every record appended by the capture of a successfully sent
\* transaction without recipient is, for the new-contract key, the
\* NewContract variant with the payload's data as bytecode and, for any other
\* key, the ExistingContract variant with the code the node has there.
C8_NewContractVariant ==
    [][\A p \in Procs :
          (Recording(p) /\ req[p].hook = "tx" /\ ~req[p].err
              /\ req[p].to \in {UNDEFINED, NULL_ADDRESS})
          => \A i \in (Len(traceInfos) + 1)..Len(traceInfos') :
                LET ti == traceInfos'[i]
                IN  /\ ti.txHash = p
                    /\ IF ti.address = NEW_CONTRACT
                       THEN IsNewContractInfo(ti) /\ ti.bytecode = req[p].data
                       ELSE /\ IsExistingContractInfo(ti)
                            /\ ti.runtimeBytecode = getContractCode(ti.address)]_vars

\* A deployment that called another contract has both kinds of record.
C8_Witness ==
    \E p \in Procs :
        /\ req[p].hook = "tx" /\ ~req[p].err /\ req[p].to = UNDEFINED
        /\ \E i, j \in 1..Len(traceInfos) :
              /\ traceInfos[i].txHash = p /\ IsNewContractInfo(traceInfos[i])
              /\ traceInfos[j].txHash = p /\ IsExistingContractInfo(traceInfos[j])

\* C9, as stated: in a disabled period the registry has the length it had at
\* the stop() that began the period.
C9_NoGrowthWhileDisabled ==
    ~isEnabled => Len(traceInfos) = stopped.len

\* C9, amended: in a disabled period that began with no transaction hook
\* pending, the registry has the length it had at the stop().
C9_NoGrowthWhenQuiet ==
    (~isEnabled /\ stopped.quiet) => Len(traceInfos) = stopped.len

\* A transaction whose toggle is on went through a quiet disabled period
\* unwrapped, with records in the registry.
C9_Witness ==
    /\ ~isEnabled /\ stopped.quiet /\ stopped.len > 0
    /\ \E p \in Hosts :
          /\ req[p].method = "eth_sendTransaction"
          /\ config.shouldCollectTransactionTraces
          /\ req[p].pc = "done" /\ req[p].hook = "none" /\ InChain(p)

\* C10: a call capture wrapped while enabled records the trace of its
\* synthetic transaction whether or not stop() is called during the cycle
\* (the transaction toggle being on and no node operation failing).
C10_StopDoesNotChangeCapture ==
    \A r \in Hosts :
        (req[r].hook = "call" /\ req[r].pc = "done" /\ faults = 0
            /\ config.shouldCollectTransactionTraces)
        => \E i \in 1..Len(traceInfos) : traceInfos[i].txHash = Fake(r)

\* The capture of a host request has given the lock back.
Released(a) == req[a].turn > 0 /\ req[a].pc \in {"callCb", "done"}
\* The process that pushes the records of the capture of host request a.
Recorder(a) == IF req[a].hook = "call" THEN Fake(a) ELSE a

C12_AppendOnly ==
    /\ traceInfos = <<>>
    /\ [][/\ Len(traceInfos') >= Len(traceInfos)
          /\ SubSeq(traceInfos', 1, Len(traceInfos)) = traceInfos
          /\ traceInfos' # traceInfos
                => \E p \in Procs : Recording(p) /\ req[p].hook = "tx"]_vars

\* Two captures have pushed records and the component has been stopped.
C12_Witness ==
    /\ ~isEnabled
    /\ \E p, q \in Procs : p # q /\ req[p].lastRec > 0 /\ req[q].firstRec > req[p].lastRec

\* The steps of a call cycle, in the order the cycle may take them.
CycleOrder ==
    {<<"new", "atNode">>, <<"atNode", "callAcquire">>,
     <<"callAcquire", "callSnapshot">>, <<"callAcquire", "waitLock">>,
     <<"waitLock", "callSnapshot">>,
     <<"callSnapshot", "callSend">>, <<"callSnapshot", "aborted">>,
     <<"callSend", "callMined">>, <<"callSend", "callRevert">>,
     <<"callMined", "callRevert">>,
     <<"callRevert", "callCb">>, <<"callRevert", "aborted">>,
     <<"callCb", "done">>}

\* C13: a call cycle goes: gate, snapshot, synthetic transaction with its
\* trace and records, revert, release, completion.  The synthetic
\* transaction lives, and its records are pushed, only between the snapshot
\* and the revert; the gate is held from before the snapshot until the
\* revert; the completion comes after the release.
C13_CycleOrder ==
    /\ [](\A r \in Hosts :
             /\ req[r].pc \in {"callSnapshot", "callSend", "callMined", "callRevert"}
                   => lockHolder = r
             /\ req[Fake(r)].pc \notin {"new", "done"}
                   => req[r].pc = "callSend" /\ ~req[r].reverted
             /\ req[Fake(r)].pc = "done"
                   => req[r].pc \in {"callSend", "callMined", "callRevert", "callCb",
                                     "done", "aborted"}
             /\ req[r].reverted => req[Fake(r)].pc = "done"
             /\ (req[r].hook = "call" /\ req[r].cbs # <<>>)
                   => req[r].reverted /\ lockHolder # r)
    /\ [][\A r \in Hosts :
             /\ (req[r].hook = "call" /\ req'[r].pc # req[r].pc)
                   => <<req[r].pc, req'[r].pc>> \in CycleOrder
             /\ req'[Fake(r)].lastRec # req[Fake(r)].lastRec
                   => /\ req[r].pc = "callSend" /\ req'[r].pc = "callSend"
                      /\ lockHolder = r /\ lockHolder' = r
                      /\ chain = chain']_vars

\* A cycle has completed after its synthetic transaction pushed records.
C13_Witness ==
    \E r \in Hosts :
        /\ req[r].pc = "done" /\ req[r].cbs = <<UNDEFINED>>
        /\ req[Fake(r)].firstRec > 0

\* A procedure that was granted the gate and has not released it.
InFlight(p) == req[p].turn > 0 /\ ~Released(p)
\* A call cycle between its snapshot and its revert.
InWindow(r) ==
    req[r].hook = "call" /\ req[r].pc \in {"callSend", "callMined", "callRevert"}
\* A genuine transaction whose traces are being recorded.
TxRecording(p) ==
    req[p].hook = "tx" /\ req[p].pc \in {"txGetBlock", "recMined", "recTrace", "recCode"}

\* C14: at most one procedure of the hosts' requests (a genuine transaction's
\* recording or a call cycle) holds the gate; two cycles are never both
\* between snapshot and revert, and no genuine transaction is recorded
\* while another request's cycle is between snapshot and revert.
C14_OneCaptureInFlight ==
    /\ Cardinality({p \in Hosts : InFlight(p)}) <= 1
    /\ \A p \in Hosts : (InFlight(p) \/ InWindow(p) \/ TxRecording(p)) => lockHolder = p
    /\ \A a, b \in Hosts :
          a # b => /\ ~(InWindow(a) /\ InWindow(b))
                   /\ ~(InWindow(a) /\ TxRecording(b))

\* A cycle is inside its window while a transaction's hook waits for the gate.
C14_Witness ==
    \E a, b \in Hosts :
        /\ InWindow(a) /\ req[Fake(a)].pc = "recTrace"
        /\ req[b].hook = "tx" /\ req[b].pc = "waitLock"

\* C15: the synthetic transaction of a call has the payload's sender, or the
\* default sender when the payload has none, the fixed gas ceiling, the
\* marker, and the payload's recipient, data and value.
C15_SyntheticTransaction ==
    \A r \in Hosts :
        req[Fake(r)].pc # "new"
        => /\ req[Fake(r)].from = IF req[r].from # UNDEFINED THEN req[r].from
                                  ELSE defaultFromAddress
           /\ req[Fake(r)].gas = BLOCK_GAS_LIMIT
           /\ req[Fake(r)].isFakeTransaction
           /\ req[Fake(r)].to = req[r].to
           /\ req[Fake(r)].data = req[r].data
           /\ req[Fake(r)].value = req[r].value

\* C16: the address a recording hands to the extractor is the sentinel when
\* the payload's to is absent, null or the null address, and the payload's
\* to otherwise.
C16_RecipientResolution ==
    \A p \in Procs :
        req[p].rec # NoRec
        => req[p].rec.address = IF req[p].to \in {UNDEFINED, NULL, NULL_ADDRESS}
                                THEN NEW_CONTRACT ELSE req[p].to

\* C17: every record of the registry is of exactly one variant: under the
\* new-contract key it is the NewContract variant with a payload's creation
\* bytecode and no fetched code, under any other key it is the
\* ExistingContract variant with the code fetched for that key.
C17_VariantDiscrimination ==
    \A i \in 1..Len(traceInfos) :
        LET ti == traceInfos[i]
        IN  /\ IsNewContractInfo(ti) \/ IsExistingContractInfo(ti)
            /\ ti.address = NEW_CONTRACT
                  => IsNewContractInfo(ti) /\ ti.bytecode \in {Data(r) : r \in Hosts}
            /\ ti.address # NEW_CONTRACT
                  => /\ IsExistingContractInfo(ti)
                     /\ ti.runtimeBytecode = getContractCode(ti.address)

\* The hook of a transaction whose send reported an error.
OnFailurePath(p) == req[p].hook = "tx" /\ req[p].err

Progress ==
    \/ \E p \in Procs, log \in StructLogs : NodeSendOk(p, log)
    \/ \E p \in Procs : NodeOther(p) \/ TxAcquire(p) \/ RecMined(p) \/ RecTrace(p) \/ RecCode(p)
    \/ \E r \in Hosts : \/ CallAcquire(r) \/ CallSnapshot(r) \/ CallSendReturned(r)
                        \/ CallMined(r) \/ CallRevert(r) \/ CallCb(r)

AllTogglesOn ==
    /\ config.shouldCollectTransactionTraces
    /\ config.shouldCollectCallTraces
    /\ config.shouldCollectGasEstimateTraces

\* C19: the hook of a synthetic transaction never asks for the gate; and when
\* no node operation has failed and all toggles are on, the capture cannot
\* come to rest before every wrapped request has had its completion invoked
\* and the gate is free.
C19_NoDeadlockAndProgress ==
    /\ \A r \in Hosts : req[Fake(r)].ticket = 0 /\ lockHolder # Fake(r)
    /\ (faults = 0 /\ AllTogglesOn /\ ~ENABLED Progress)
          => /\ \A p \in Procs : req[p].hook # "none" => req[p].cbs # <<>>
             /\ lockHolder = NONE

====
